---- MODULE Spec2Model ----
(***************************************************************************)
(* Model of the jutils command-line tools.                                 *)
(*                                                                         *)
(*   jls  (crates/jls/src/main.rs): directory lister with the multi-column *)
(*        terminal-width layout.  Specification: Spec.                     *)
(*   b    (crates/b/src/main.rs): build/format dispatcher.                 *)
(*        Specification: SpecB.                                            *)
(*   jfind (crates/jfind/src/main.rs): recursive finder; the parallel     *)
(*        directory search.  Specification: SpecFind.                      *)
(*                                                                         *)
(* A Rust String is modelled as a sequence of one-character strings, so    *)
(* that lengths, padding and newlines are counted as the code counts them. *)
(***************************************************************************)
EXTENDS Integers, Sequences, FiniteSets, TLC

\* ------------------------------------------------------------------ bounds

\* Largest number of entries the listed directory holds.
MaxEntries == 5

\* Terminal widths 0..MaxWidth are tried (and 80, the usual width).
MaxWidth == 16

\* Largest number of files in the directory the b tool is started in.
MaxFiles == 3

\* Largest number of paths below the root that jfind's walk yields.
MaxWalk == 3

\* Search depths 0..MaxDepth are tried (Args::depth).
MaxDepth == 2

\* ----------------------------------------------------------------- strings

SP == " "
NL == "\n"

\* Byte value of the characters used in names (str/Path ordering is bytewise).
Byte(c) ==
    CASE c = "." -> 46
      [] c = "/" -> 47
      [] c = "a" -> 97
      [] c = "b" -> 98
      [] c = "c" -> 99
      [] c = "d" -> 100
      [] c = "h" -> 104

\* Lexicographic (bytewise) strict order on strings: the order of Vec::sort
\* on the entry paths of one directory.
RECURSIVE StrLess(_, _)
StrLess(s, t) ==
    IF t = <<>> THEN FALSE
    ELSE IF s = <<>> THEN TRUE
    ELSE IF Byte(Head(s)) # Byte(Head(t)) THEN Byte(Head(s)) < Byte(Head(t))
    ELSE StrLess(Tail(s), Tail(t))

\* " ".repeat(k)
Repeat(k) == [i \in 1..k |-> SP]

\* Vec<String>::join(sep)
RECURSIVE Join(_, _)
Join(lines, sep) ==
    IF lines = <<>> THEN <<>>
    ELSE IF Len(lines) = 1 THEN lines[1]
    ELSE lines[1] \o sep \o Join(Tail(lines), sep)

\* Largest element of a finite set of naturals, 0 for the empty set
\* (Iterator::max().unwrap_or(0)).
MaxOr0(S) == IF S = {} THEN 0 ELSE CHOOSE m \in S : \A x \in S : x <= m

\* ------------------------------------------------------------ jls: inputs

\* The entry paths a directory can hold (what read_dir's entry.path() gives).
\* Names hold no space and no newline.
NamePool ==
    { <<"a">>, <<"b">>, <<"c">>, <<"d">>, <<"b", "b">>, <<"c", "c", "c">>,
      <<".", "h">> }

Directories == { S \in SUBSET NamePool : Cardinality(S) <= MaxEntries }

\* What fs::metadata(path) finds at the path argument.
PathKinds == { "dir", "file", "missing" }

\* The path argument (Args::path, default ".").
ArgPath == <<".">>

\* crossterm::terminal::size() gives a u16 column count.
Widths == (0..MaxWidth) \cup {80}

\* ------------------------------------------------------------------ state

VARIABLES
    pc,              \* jls: position in main/ls
    fs_kind,         \* jls: what the path argument names
    dir_entries,     \* jls: the entry paths of the directory
    args_all,        \* jls: Args::all
    args_list,       \* jls: Args::list
    entries_paths,   \* jls: ls::entries_paths
    entries_strs,    \* jls: ls::entries_strs
    terminal_width,  \* jls: ls::terminal_width
    max_entry_width, \* jls: ls::max_entry_width
    columns,         \* jls: ls::columns
    rows,            \* jls: ls::rows
    row,             \* jls: loop variable row
    column,          \* jls: loop variable column
    output,          \* jls: ls::output / the value ls returns
    err,             \* jls: why the run aborted ("none" while it has not)
    stdout,          \* jls: what has been written to standard output
    b_pc,            \* b: position in main
    b_dir,           \* b: current_dir, as its components
    b_paths,         \* b: the file names of current_dir, in read_dir order
    b_format,        \* b: Args::format
    b_build,         \* b: Args::build
    b_release,       \* b: Args::release
    b_verbose,       \* b: Args::verbose
    b_project,       \* b: the detected Project (NoProject before detection)
    b_ran,           \* b: the commands spawned so far, with their exit status
    b_out,           \* b: the messages main and run_cmd printed
    b_err,           \* b: why main returned Err ("none" while it has not)
    f_pc,            \* jfind: position in find_in_directory
    f_tree,          \* jfind: the paths below the searched directory
    f_depth,         \* jfind: Args::depth
    f_query,         \* jfind: Args::query
    f_case_sensitive,\* jfind: Args::case_sensitive
    f_use_gitignore, \* jfind: Args::ignore_gitingore
    f_ignored,       \* jfind: the paths the built Gitignore matches
    f_colour,        \* jfind: whether the colored crate emits escape codes
    f_pending,       \* jfind: walked paths no worker has taken yet
    f_ret,           \* jfind: find_in_directory::ret
    f_result,        \* jfind: the string find_in_directory returns
    f_err            \* jfind: why it returned Err ("none" while it has not)

lsVars ==
    << pc, fs_kind, dir_entries, args_all, args_list, entries_paths,
       entries_strs, terminal_width, max_entry_width, columns, rows, row,
       column, output, err, stdout >>

bVars ==
    << b_pc, b_dir, b_paths, b_format, b_build, b_release, b_verbose,
       b_project, b_ran, b_out, b_err >>

fVars ==
    << f_pc, f_tree, f_depth, f_query, f_case_sensitive, f_use_gitignore,
       f_ignored, f_colour, f_pending, f_ret, f_result, f_err >>

vars == << lsVars, bVars, fVars >>

\* ------------------------------------------------------- jls: pure helpers

\* Path::file_name(): the text after the last '/'.
RECURSIVE FileName(_)
FileName(p) ==
    IF \E i \in 1..Len(p) : p[i] = "/"
    THEN FileName(Tail(p))
    ELSE p

\* The filter closure of ls: keep names that do not start with '.'.
IsVisible(p) == FileName(p) # <<>> /\ Head(FileName(p)) # "."

\* The sequences that list the set S once each, in any order (the order in
\* which read_dir yields the entries is unspecified).
RECURSIVE Orders(_)
Orders(S) ==
    IF S = {} THEN { <<>> }
    ELSE UNION { { <<x>> \o s : s \in Orders(S \ {x}) } : x \in S }

\* entries_paths.sort()
SortPaths(s) == SortSeq(s, LAMBDA x, y : StrLess(x, y))

\* max_entry_width: longest entry + 2.
MaxEntryWidth(strs) == MaxOr0({ Len(strs[i]) : i \in 1..Len(strs) }) + 2

\* columns = terminal_width / max_entry_width
Columns(tw, mew) == tw \div mew

\* rows = (entries_paths.len() + columns - 1) / columns, for columns >= 1
Rows(n, cols) == (n + cols - 1) \div cols

\* Faulty variant: the column stride is the column count, not the row count.
CellIndexColumnStride(r, c, nrows) == r + c * columns

\* Faulty variant: row-major fill.
CellIndexRowMajor(r, c, nrows) == r * columns + c

\* The index looked up for a cell: row + column * rows.
CellIndex(r, c, nrows) == r + c * nrows

\* Faulty variant: every cell is padded, the end column too.
PadsCellAlways(c, cols) == TRUE

\* "Add spaces only if we're *not* in the end column."
PadsCell(c, cols) == c # cols - 1

\* Faulty variant: the padding is one space too long.
CellTextPadOffByOne(strs, r, c, nrows, cols, mew) ==
    LET i == r + c * nrows IN
    IF i < Len(strs)
    THEN strs[i + 1] \o
         (IF c # cols - 1 THEN Repeat(mew - Len(strs[i + 1]) + 1) ELSE <<>>)
    ELSE <<>>

\* The text one inner-loop iteration appends to output.
CellText(strs, r, c, nrows, cols, mew) ==
    LET i == CellIndex(r, c, nrows) IN
    IF i < Len(strs)
    THEN strs[i + 1] \o
         (IF PadsCell(c, cols) THEN Repeat(mew - Len(strs[i + 1])) ELSE <<>>)
    ELSE <<>>

\* Faulty variant: every row, the last one too, ends with a newline.
RowEndAlways(r, nrows) == <<NL>>

\* What ends a row: a newline unless it is the last row.
RowEnd(r, nrows) == IF r # nrows - 1 THEN <<NL>> ELSE <<>>

\* One line of the -l listing; the stat-dependent columns (mode, links,
\* owner, group, size, time) are kept as one opaque field.
ListLine(p) == <<"-", SP>> \o FileName(p)

\* ------------------------------------------------------------ jls: actions

InitLs ==
    /\ pc = "stat"
    /\ fs_kind \in PathKinds
    /\ dir_entries \in Directories
    /\ fs_kind # "dir" => dir_entries = {}
    /\ args_all \in BOOLEAN
    /\ args_list \in BOOLEAN
    /\ entries_paths = <<>>
    /\ entries_strs = <<>>
    /\ terminal_width = 0
    /\ max_entry_width = 0
    /\ columns = 0
    /\ rows = 0
    /\ row = 0
    /\ column = 0
    /\ output = <<>>
    /\ err = "none"
    /\ stdout = <<>>

\* ls returns Err (main's unwrap panics) or panics itself: the process ends
\* with a message on standard error and nothing more on standard output.
Abort(why) ==
    /\ pc' = "aborted"
    /\ err' = why

\* fs::metadata(&path)? fails.
StatFail ==
    /\ pc = "stat"
    /\ fs_kind = "missing"
    /\ Abort("stat")
    /\ UNCHANGED << fs_kind, dir_entries, args_all, args_list, entries_paths,
                    entries_strs, terminal_width, max_entry_width, columns,
                    rows, row, column, output, stdout >>
    /\ UNCHANGED << bVars, fVars >>

\* The path is not a directory: return Ok(path).
StatFile ==
    /\ pc = "stat"
    /\ fs_kind = "file"
    /\ output' = ArgPath
    /\ pc' = "print"
    /\ UNCHANGED << fs_kind, dir_entries, args_all, args_list, entries_paths,
                    entries_strs, terminal_width, max_entry_width, columns,
                    rows, row, column, err, stdout >>
    /\ UNCHANGED << bVars, fVars >>

\* The path is a directory: go on to read it.
StatDir ==
    /\ pc = "stat"
    /\ fs_kind = "dir"
    /\ pc' = "read"
    /\ UNCHANGED << fs_kind, dir_entries, args_all, args_list, entries_paths,
                    entries_strs, terminal_width, max_entry_width, columns,
                    rows, row, column, output, err, stdout >>
    /\ UNCHANGED << bVars, fVars >>

\* fs::read_dir(path)? fails, or an entry cannot be read (entry.unwrap()).
ReadDirFail ==
    /\ pc = "read"
    /\ Abort("read_dir")
    /\ UNCHANGED << fs_kind, dir_entries, args_all, args_list, entries_paths,
                    entries_strs, terminal_width, max_entry_width, columns,
                    rows, row, column, output, stdout >>
    /\ UNCHANGED << bVars, fVars >>

\* read_dir yields the entries in some order; without --all the dot files
\* are filtered out.
ReadDir ==
    /\ pc = "read"
    /\ LET kept == IF args_all THEN dir_entries
                   ELSE { p \in dir_entries : IsVisible(p) }
       IN  \E s \in Orders(kept) : entries_paths' = s
    /\ pc' = "sort"
    /\ UNCHANGED << fs_kind, dir_entries, args_all, args_list, entries_strs,
                    terminal_width, max_entry_width, columns, rows, row,
                    column, output, err, stdout >>
    /\ UNCHANGED << bVars, fVars >>

\* entries_paths.sort(); entries_strs; then the branch on args.list.
SortEntries ==
    /\ pc = "sort"
    /\ entries_paths' = SortPaths(entries_paths)
    /\ entries_strs' = entries_paths'
    /\ pc' = IF args_list THEN "list" ELSE "size"
    /\ UNCHANGED << fs_kind, dir_entries, args_all, args_list, terminal_width,
                    max_entry_width, columns, rows, row, column, output, err,
                    stdout >>
    /\ UNCHANGED << bVars, fVars >>

\* The -l branch: fs::metadata(entry).unwrap() (or the owner/group/time
\* lookups) fails for some entry.
ListFail ==
    /\ pc = "list"
    /\ entries_paths # <<>>
    /\ Abort("metadata")
    /\ UNCHANGED << fs_kind, dir_entries, args_all, args_list, entries_paths,
                    entries_strs, terminal_width, max_entry_width, columns,
                    rows, row, column, output, stdout >>
    /\ UNCHANGED << bVars, fVars >>

\* The -l branch: one line per entry, joined with "\n".
ListEntries ==
    /\ pc = "list"
    /\ output' = Join([i \in 1..Len(entries_paths) |->
                          ListLine(entries_paths[i])], <<NL>>)
    /\ pc' = "print"
    /\ UNCHANGED << fs_kind, dir_entries, args_all, args_list, entries_paths,
                    entries_strs, terminal_width, max_entry_width, columns,
                    rows, row, column, err, stdout >>
    /\ UNCHANGED << bVars, fVars >>

\* Faulty variant: the failure of size() is reported but the listing goes on
\* with a width of 80.
TermSizeFailFallback ==
    /\ pc = "size"
    /\ err' = "size"
    /\ terminal_width' = 80
    /\ pc' = "layout"
    /\ UNCHANGED << fs_kind, dir_entries, args_all, args_list, entries_paths,
                    entries_strs, max_entry_width, columns, rows, row, column,
                    output, stdout >>
    /\ UNCHANGED << bVars, fVars >>

\* size()? fails: no terminal is attached.
TermSizeFail ==
    /\ pc = "size"
    /\ Abort("size")
    /\ UNCHANGED << fs_kind, dir_entries, args_all, args_list, entries_paths,
                    entries_strs, terminal_width, max_entry_width, columns,
                    rows, row, column, output, stdout >>
    /\ UNCHANGED << bVars, fVars >>

\* let terminal_width = size()?.0 as usize;
TermSize ==
    /\ pc = "size"
    /\ \E w \in Widths : terminal_width' = w
    /\ pc' = "layout"
    /\ UNCHANGED << fs_kind, dir_entries, args_all, args_list, entries_paths,
                    entries_strs, max_entry_width, columns, rows, row, column,
                    output, err, stdout >>
    /\ UNCHANGED << bVars, fVars >>

\* max_entry_width, columns, rows, output = String::new().  With columns = 0
\* the computation of rows panics: for n >= 1 the division is by zero, for
\* n = 0 the subtraction underflows (debug build) or, wrapped, the division
\* is by zero (release build).
Layout ==
    /\ pc = "layout"
    /\ max_entry_width' = MaxEntryWidth(entries_strs)
    /\ columns' = Columns(terminal_width, max_entry_width')
    /\ IF columns' = 0
       THEN /\ Abort("arith")
            /\ UNCHANGED << rows, row, column, output >>
       ELSE /\ rows' = Rows(Len(entries_paths), columns')
            /\ row' = 0
            /\ column' = 0
            /\ output' = <<>>
            /\ pc' = "cell"
            /\ UNCHANGED err
    /\ UNCHANGED << fs_kind, dir_entries, args_all, args_list, entries_paths,
                    entries_strs, terminal_width, stdout >>
    /\ UNCHANGED << bVars, fVars >>

\* One iteration of the inner loop: the cell (row, column).
LoopCell ==
    /\ pc = "cell"
    /\ row < rows
    /\ column < columns
    /\ output' = output \o
                 CellText(entries_strs, row, column, rows, columns,
                          max_entry_width)
    /\ column' = column + 1
    /\ UNCHANGED << pc, fs_kind, dir_entries, args_all, args_list,
                    entries_paths, entries_strs, terminal_width,
                    max_entry_width, columns, rows, row, err, stdout >>
    /\ UNCHANGED << bVars, fVars >>

\* The inner loop is over: end the row and go to the next one.
LoopRowEnd ==
    /\ pc = "cell"
    /\ row < rows
    /\ column = columns
    /\ output' = output \o RowEnd(row, rows)
    /\ row' = row + 1
    /\ column' = 0
    /\ UNCHANGED << pc, fs_kind, dir_entries, args_all, args_list,
                    entries_paths, entries_strs, terminal_width,
                    max_entry_width, columns, rows, err, stdout >>
    /\ UNCHANGED << bVars, fVars >>

\* The outer loop is over: Ok(output).
LoopExit ==
    /\ pc = "cell"
    /\ row = rows
    /\ pc' = "print"
    /\ UNCHANGED << fs_kind, dir_entries, args_all, args_list, entries_paths,
                    entries_strs, terminal_width, max_entry_width, columns,
                    rows, row, column, output, err, stdout >>
    /\ UNCHANGED << bVars, fVars >>

\* main: println!("{}", output)
PrintOutput ==
    /\ pc = "print"
    /\ stdout' = output \o <<NL>>
    /\ pc' = "done"
    /\ UNCHANGED << fs_kind, dir_entries, args_all, args_list, entries_paths,
                    entries_strs, terminal_width, max_entry_width, columns,
                    rows, row, column, output, err >>
    /\ UNCHANGED << bVars, fVars >>


\* -------------------------------------------------------------- b: inputs

\* const WORK_PROJECTS
WORK_PROJECTS ==
    << "hotshot", "espresso-sequencer", "hotshot-builder-core",
       "hotshot-query-service", "hotshot-events-service" >>

\* The directories b is started in, as path components (the last one is
\* the directory's own name).
DirPool ==
    { << "home", "proj" >>, << "home", "hotshot" >>, << "home", "HotShot" >>,
      << "hotshot", "espresso-sequencer" >>,
      << "home", "hotshot-query-service" >> }

\* The file names such a directory can hold.
FilePool == { "Cargo.toml", "lib.rs", "tool.py", "README", "hotshot" }

\* The listings of a directory: up to MaxFiles names, in any order.
RECURSIVE Listings(_)
Listings(k) ==
    IF k = 0 THEN { <<>> }
    ELSE LET shorter == Listings(k - 1)
             longest == { t \in shorter : Len(t) = k - 1 }
             used(t) == { t[i] : i \in 1..Len(t) }
         IN  shorter \cup
             UNION { { Append(t, f) : f \in FilePool \ used(t) } :
                     t \in longest }

\* str::to_lowercase on the names used here.
Lower(name) ==
    CASE name = "HotShot" -> "hotshot"
      [] name = "Cargo.toml" -> "cargo.toml"
      [] name = "README" -> "readme"
      [] OTHER -> name

\* Path::extension() of a file name ("" for none).
Extension(name) ==
    CASE name = "Cargo.toml" -> "toml"
      [] name = "lib.rs" -> "rs"
      [] name = "tool.py" -> "py"
      [] OTHER -> ""

NoProject == [ name |-> "", work |-> FALSE, project_type |-> "None" ]

\* ------------------------------------------------------- b: pure functions

\* detect_work_project: the first name of WORK_PROJECTS that is, ignoring
\* case, a component of some entry's path (current_dir joined with the file
\* name), provided the directory's own name is a work project.
DetectWorkProject(dir, paths) ==
    LET dirname == Lower(dir[Len(dir)])
        known == { WORK_PROJECTS[k] : k \in 1..Len(WORK_PROJECTS) }
        components(i) == { dir[j] : j \in 1..Len(dir) } \cup { paths[i] }
        hit(k) == \E i \in 1..Len(paths) :
                     \E c \in components(i) : Lower(c) = WORK_PROJECTS[k]
    IN  IF dirname \notin known THEN ""
        ELSE IF \E k \in 1..Len(WORK_PROJECTS) : hit(k)
        THEN WORK_PROJECTS[CHOOSE k \in 1..Len(WORK_PROJECTS) :
                              hit(k) /\ \A j \in 1..(k - 1) : ~hit(j)]
        ELSE ""

\* What one entry says about the project type ("" for nothing).
EntryType(name) ==
    IF Lower(name) = "cargo.toml" THEN "Rust"
    ELSE IF Lower(name) \in { "requirements.txt", "pyproject.toml" }
    THEN "Python"
    ELSE IF Extension(name) = "rs" THEN "Rust"
    ELSE IF Extension(name) = "py" THEN "Python"
    ELSE ""

\* detect_project_type: the first entry that decides.
RECURSIVE DetectProjectType(_)
DetectProjectType(paths) ==
    IF paths = <<>> THEN ""
    ELSE IF EntryType(Head(paths)) # "" THEN EntryType(Head(paths))
    ELSE DetectProjectType(Tail(paths))

\* The project main builds from the two detections (NoProject: bail!).
DetectProject(dir, paths) ==
    IF DetectWorkProject(dir, paths) # ""
    THEN [ name |-> DetectWorkProject(dir, paths), work |-> TRUE,
           project_type |-> "Rust" ]
    ELSE IF DetectProjectType(paths) # ""
    THEN [ name |-> dir[Len(dir)], work |-> FALSE,
           project_type |-> DetectProjectType(paths) ]
    ELSE NoProject

\* Faulty variant: the release flag is appended to the format command too.
FormatRustWithRelease(project) ==
    (IF project.work /\ project.name = "hotshot"
     THEN << "just", "async-std", "fmt_lint" >>
     ELSE << "cargo", "fmt" >>)
    \o (IF b_release THEN << "--release" >> ELSE <<>>)

\* Project::format_rust: the command line it runs.
FormatRust(project) ==
    IF project.work /\ project.name = "hotshot"
    THEN << "just", "async-std", "fmt_lint" >>
    ELSE << "cargo", "fmt" >>

\* Project::build_rust: the command line it runs.
BuildRust(project, release) ==
    (IF project.work /\ project.name = "hotshot"
     THEN << "just", "async-std", "build" >>
     ELSE << "cargo", "build" >>)
    \o (IF release THEN << "--release" >> ELSE <<>>)

\* The messages run_cmd itself prints to standard output (the child's own
\* lines are not modelled): the exit code, when the command succeeded.
ExitMessage(ok) == IF ok THEN << "Exited with code" >> ELSE <<>>

\* What main prints before a build when --verbose is set.
VerboseBuild(verbose) ==
    IF verbose THEN << "Project", "Initiating build" >> ELSE <<>>

\* --------------------------------------------------------------- b: actions

\* The b variables while b is not the program that runs.
BIdle ==
    /\ b_pc = "idle"
    /\ b_dir = <<>>
    /\ b_paths = <<>>
    /\ b_format = FALSE
    /\ b_build = FALSE
    /\ b_release = FALSE
    /\ b_verbose = FALSE
    /\ b_project = NoProject
    /\ b_ran = <<>>
    /\ b_out = <<>>
    /\ b_err = "none"

\* The jls variables while jls is not the program that runs.
LsIdle ==
    /\ pc = "idle"
    /\ fs_kind = "dir"
    /\ dir_entries = {}
    /\ args_all = FALSE
    /\ args_list = FALSE
    /\ entries_paths = <<>>
    /\ entries_strs = <<>>
    /\ terminal_width = 0
    /\ max_entry_width = 0
    /\ columns = 0
    /\ rows = 0
    /\ row = 0
    /\ column = 0
    /\ output = <<>>
    /\ err = "none"
    /\ stdout = <<>>

\* The jfind variables while jfind is not the program that runs.
FIdle ==
    /\ f_pc = "idle"
    /\ f_tree = {}
    /\ f_depth = 0
    /\ f_query = <<>>
    /\ f_case_sensitive = FALSE
    /\ f_use_gitignore = FALSE
    /\ f_ignored = {}
    /\ f_colour = FALSE
    /\ f_pending = {}
    /\ f_ret = <<>>
    /\ f_result = <<>>
    /\ f_err = "none"

InitB ==
    /\ LsIdle
    /\ FIdle
    /\ b_pc = "start"
    /\ b_dir \in DirPool
    /\ b_paths \in Listings(MaxFiles)
    /\ b_format \in BOOLEAN
    /\ b_build \in BOOLEAN
    /\ b_release \in BOOLEAN
    /\ b_verbose \in BOOLEAN
    /\ b_project = NoProject
    /\ b_ran = <<>>
    /\ b_out = <<>>
    /\ b_err = "none"

\* main returns Err.
BAbort(why) ==
    /\ b_pc' = "aborted"
    /\ b_err' = why

\* current_dir() or read_dir fails.
BReadDirFail ==
    /\ b_pc = "start"
    /\ BAbort("read_dir")
    /\ UNCHANGED << b_dir, b_paths, b_format, b_build, b_release, b_verbose,
                    b_project, b_ran, b_out >>
    /\ UNCHANGED << lsVars, fVars >>

\* The directory is read and the project detected (or bail!).
BDetect ==
    /\ b_pc = "start"
    /\ IF DetectProject(b_dir, b_paths) = NoProject
       THEN /\ BAbort("detect")
            /\ UNCHANGED b_project
       ELSE /\ b_project' = DetectProject(b_dir, b_paths)
            /\ b_pc' = "build"
            /\ UNCHANGED b_err
    /\ UNCHANGED << b_dir, b_paths, b_format, b_build, b_release, b_verbose,
                    b_ran, b_out >>
    /\ UNCHANGED << lsVars, fVars >>

\* if args.build is false.
BBuildSkip ==
    /\ b_pc = "build"
    /\ ~b_build
    /\ b_pc' = "format"
    /\ UNCHANGED << b_dir, b_paths, b_format, b_build, b_release, b_verbose,
                    b_project, b_ran, b_out, b_err >>
    /\ UNCHANGED << lsVars, fVars >>

\* project.build(args.release)? on a Rust project: the command is spawned
\* and runs to its end, with either exit status.
BBuild ==
    /\ b_pc = "build"
    /\ b_build
    /\ b_project.project_type = "Rust"
    /\ \E ok \in BOOLEAN :
         /\ b_ran' = Append(b_ran, [ cmd |-> BuildRust(b_project, b_release),
                                     ok |-> ok ])
         /\ b_out' = b_out \o VerboseBuild(b_verbose) \o ExitMessage(ok)
    /\ b_pc' = "format"
    /\ UNCHANGED << b_dir, b_paths, b_format, b_build, b_release, b_verbose,
                    b_project, b_err >>
    /\ UNCHANGED << lsVars, fVars >>

\* The build command cannot be spawned (spawn()? or wait()? fails).
BBuildSpawnFail ==
    /\ b_pc = "build"
    /\ b_build
    /\ b_project.project_type = "Rust"
    /\ b_out' = b_out \o VerboseBuild(b_verbose)
    /\ BAbort("spawn")
    /\ UNCHANGED << b_dir, b_paths, b_format, b_build, b_release, b_verbose,
                    b_project, b_ran >>
    /\ UNCHANGED << lsVars, fVars >>

\* project.build on a Python project: bail!.
BBuildUnsupported ==
    /\ b_pc = "build"
    /\ b_build
    /\ b_project.project_type = "Python"
    /\ b_out' = b_out \o VerboseBuild(b_verbose)
    /\ BAbort("unsupported")
    /\ UNCHANGED << b_dir, b_paths, b_format, b_build, b_release, b_verbose,
                    b_project, b_ran >>
    /\ UNCHANGED << lsVars, fVars >>

\* if args.format is false: Ok(()).
BFormatSkip ==
    /\ b_pc = "format"
    /\ ~b_format
    /\ b_pc' = "done"
    /\ UNCHANGED << b_dir, b_paths, b_format, b_build, b_release, b_verbose,
                    b_project, b_ran, b_out, b_err >>
    /\ UNCHANGED << lsVars, fVars >>

\* project.format()? on a Rust project.
BFormat ==
    /\ b_pc = "format"
    /\ b_format
    /\ b_project.project_type = "Rust"
    /\ \E ok \in BOOLEAN :
         /\ b_ran' = Append(b_ran, [ cmd |-> FormatRust(b_project),
                                     ok |-> ok ])
         /\ b_out' = b_out \o ExitMessage(ok)
    /\ b_pc' = "done"
    /\ UNCHANGED << b_dir, b_paths, b_format, b_build, b_release, b_verbose,
                    b_project, b_err >>
    /\ UNCHANGED << lsVars, fVars >>

\* The format command cannot be spawned.
BFormatSpawnFail ==
    /\ b_pc = "format"
    /\ b_format
    /\ b_project.project_type = "Rust"
    /\ BAbort("spawn")
    /\ UNCHANGED << b_dir, b_paths, b_format, b_build, b_release, b_verbose,
                    b_project, b_ran, b_out >>
    /\ UNCHANGED << lsVars, fVars >>

\* project.format on a Python project: bail!.
BFormatUnsupported ==
    /\ b_pc = "format"
    /\ b_format
    /\ b_project.project_type = "Python"
    /\ BAbort("unsupported")
    /\ UNCHANGED << b_dir, b_paths, b_format, b_build, b_release, b_verbose,
                    b_project, b_ran, b_out >>
    /\ UNCHANGED << lsVars, fVars >>

Init == InitLs /\ BIdle /\ FIdle

Next ==
    \/ StatFail
    \/ StatFile
    \/ StatDir
    \/ ReadDirFail
    \/ ReadDir
    \/ SortEntries
    \/ ListFail
    \/ ListEntries
    \/ TermSizeFail
    \/ TermSize
    \/ Layout
    \/ LoopCell
    \/ LoopRowEnd
    \/ LoopExit
    \/ PrintOutput

Spec == Init /\ [][Next]_vars

NextB ==
    \/ BReadDirFail
    \/ BDetect
    \/ BBuildSkip
    \/ BBuild
    \/ BBuildSpawnFail
    \/ BBuildUnsupported
    \/ BFormatSkip
    \/ BFormat
    \/ BFormatSpawnFail
    \/ BFormatUnsupported

SpecB == InitB /\ [][NextB]_vars

\* ---------------------------------------------------------- jfind: inputs

\* The escape character that starts a colour code.
ESC == "ESC"

\* The root of the search, as WalkDir displays it.
FindRoot == << "." >>

\* The paths that can lie below the root.
FindPool ==
    { << ".", "/", "a" >>, << ".", "/", "a", "/", "q" >>,
      << ".", "/", "a", "q" >>, << ".", "/", "Q" >>, << ".", "/", "b" >> }

\* Depth of a path below the root: its number of separators.
PathDepth(p) == Cardinality({ i \in 1..Len(p) : p[i] = "/" })

\* The directory a path lies in.
RECURSIVE ParentPath(_)
ParentPath(p) ==
    IF p = <<>> THEN <<>>
    ELSE IF p[Len(p)] = "/" THEN SubSeq(p, 1, Len(p) - 1)
    ELSE ParentPath(SubSeq(p, 1, Len(p) - 1))

\* The directory trees searched: with every path, the directories above it.
Trees ==
    { S \in SUBSET FindPool :
        /\ Cardinality(S) <= MaxWalk
        /\ \A p \in S : ParentPath(p) \in S \cup { FindRoot } }

Queries == { << "q" >>, << "a" >>, << "Q" >> }

\* What the Gitignore built from the directory's .gitignore can match.
IgnoreSets ==
    { {}, { << ".", "/", "b" >> },
      { << ".", "/", "a" >>, << ".", "/", "a", "/", "q" >> } }

\* ------------------------------------------------- jfind: pure functions

\* Byte value of the characters of paths and colour codes.
FindByte(c) ==
    CASE c = ESC -> 27
      [] c = "." -> 46
      [] c = "/" -> 47
      [] c = "0" -> 48
      [] c = "1" -> 49
      [] c = "9" -> 57
      [] c = "Q" -> 81
      [] c = "[" -> 91
      [] c = "a" -> 97
      [] c = "b" -> 98
      [] c = "m" -> 109
      [] c = "q" -> 113

\* Ord for String: bytewise lexicographic order.
RECURSIVE LineLess(_, _)
LineLess(s, t) ==
    IF t = <<>> THEN FALSE
    ELSE IF s = <<>> THEN TRUE
    ELSE IF FindByte(Head(s)) # FindByte(Head(t))
    THEN FindByte(Head(s)) < FindByte(Head(t))
    ELSE LineLess(Tail(s), Tail(t))

\* str::to_lowercase
ToLowercase(s) == [ i \in 1..Len(s) |-> IF s[i] = "Q" THEN "q" ELSE s[i] ]

\* str::find: the position (from 1) of the first occurrence, 0 for None.
StrFind(hay, needle) ==
    LET at(i) == SubSeq(hay, i, i + Len(needle) - 1) = needle
        hits == { i \in 1..(Len(hay) - Len(needle) + 1) : at(i) }
    IN  IF hits = {} THEN 0 ELSE CHOOSE i \in hits : \A j \in hits : i <= j

\* Colorize::bright_red: the text between the codes ESC[91m and ESC[0m when
\* colouring is on, the text alone when it is off.
BrightRed(text, colour) ==
    IF colour
    THEN << ESC, "[", "9", "1", "m" >> \o text \o << ESC, "[", "0", "m" >>
    ELSE text

\* check_and_colorize_match, as an Option: <<>> for None, <<line>> for Some.
CheckAndColorizeMatch(path, query, case_sensitive, colour) ==
    LET start == IF ~case_sensitive
                 THEN StrFind(ToLowercase(path), ToLowercase(query))
                 ELSE StrFind(path, query)
        end == start + Len(query)
    IN  IF start = 0 THEN <<>>
        ELSE << SubSeq(path, 1, start - 1)
                \o BrightRed(SubSeq(path, start, end - 1), colour)
                \o SubSeq(path, end, Len(path)) >>

\* WalkDir::new(directory).max_depth(depth): the root and the paths below it
\* down to that depth.
WalkDir(tree, depth) ==
    { p \in tree \cup { FindRoot } : PathDepth(p) <= depth }

\* The closure of filter_map: None for an ignored path, else the match.
FilterMap(path) ==
    IF path \in f_ignored THEN <<>>
    ELSE CheckAndColorizeMatch(path, f_query, f_case_sensitive, f_colour)

\* Faulty variant: the collected lines are left in the order of arrival.
SortLinesMissing(ret) == ret

\* ret.sort()
SortLines(ret) == SortSeq(ret, LAMBDA x, y : LineLess(x, y))

\* --------------------------------------------------------- jfind: actions

InitFind ==
    /\ LsIdle
    /\ BIdle
    /\ f_pc = "gitignore"
    /\ f_tree \in Trees
    /\ f_depth \in 0..MaxDepth
    /\ f_query \in Queries
    /\ f_case_sensitive \in BOOLEAN
    /\ f_use_gitignore \in BOOLEAN
    /\ f_ignored = {}
    /\ f_colour \in BOOLEAN
    /\ f_pending = {}
    /\ f_ret = <<>>
    /\ f_result = <<>>
    /\ f_err = "none"

\* The .gitignore cannot be parsed (bail!) or the builder fails (build()?).
FGitignoreFail ==
    /\ f_pc = "gitignore"
    /\ f_use_gitignore
    /\ f_pc' = "aborted"
    /\ f_err' = "gitignore"
    /\ UNCHANGED << f_tree, f_depth, f_query, f_case_sensitive,
                    f_use_gitignore, f_ignored, f_colour, f_pending, f_ret,
                    f_result >>
    /\ UNCHANGED << lsVars, bVars >>

\* The Gitignore is built (empty without the flag) and the walk is handed
\* to the parallel bridge.
FStartWalk ==
    /\ f_pc = "gitignore"
    /\ \E ig \in IgnoreSets :
         /\ ~f_use_gitignore => ig = {}
         /\ f_ignored' = ig
    /\ f_pending' = WalkDir(f_tree, f_depth)
    /\ f_pc' = "walk"
    /\ UNCHANGED << f_tree, f_depth, f_query, f_case_sensitive,
                    f_use_gitignore, f_colour, f_ret, f_result, f_err >>
    /\ UNCHANGED << lsVars, bVars >>

\* Some worker takes some walked path through map and filter_map; what it
\* yields is collected after what was collected before.
FWorker ==
    /\ f_pc = "walk"
    /\ \E p \in f_pending :
         /\ f_ret' = f_ret \o FilterMap(p)
         /\ f_pending' = f_pending \ { p }
    /\ UNCHANGED << f_pc, f_tree, f_depth, f_query, f_case_sensitive,
                    f_use_gitignore, f_ignored, f_colour, f_result, f_err >>
    /\ UNCHANGED << lsVars, bVars >>

\* collect is complete: ret.sort(); Ok(ret.join("\n")).
FSortJoin ==
    /\ f_pc = "walk"
    /\ f_pending = {}
    /\ f_ret' = SortLines(f_ret)
    /\ f_result' = Join(f_ret', <<NL>>)
    /\ f_pc' = "done"
    /\ UNCHANGED << f_tree, f_depth, f_query, f_case_sensitive,
                    f_use_gitignore, f_ignored, f_colour, f_pending, f_err >>
    /\ UNCHANGED << lsVars, bVars >>

NextFind ==
    \/ FGitignoreFail
    \/ FStartWalk
    \/ FWorker
    \/ FSortJoin

SpecFind == InitFind /\ [][NextFind]_vars

\* --------------------------------------------- reading the printed layout

\* The rows of a text: the pieces between newlines (one more than newlines).
RECURSIVE SplitNL(_)
SplitNL(s) ==
    IF \A i \in 1..Len(s) : s[i] # NL THEN << s >>
    ELSE LET k == CHOOSE i \in 1..Len(s) :
                    s[i] = NL /\ \A j \in 1..(i - 1) : s[j] # NL
         IN  << SubSeq(s, 1, k - 1) >> \o SplitNL(SubSeq(s, k + 1, Len(s)))

\* A text without the spaces at its end.
RECURSIVE TrimEnd(_)
TrimEnd(s) ==
    IF s # <<>> /\ s[Len(s)] = SP THEN TrimEnd(SubSeq(s, 1, Len(s) - 1))
    ELSE s

\* Row r (from 0) of the printed text, empty when there is no such row.
OutRow(r) ==
    LET ls == SplitNL(output) IN IF r < Len(ls) THEN ls[r + 1] ELSE <<>>

\* The name shown in cell (r, c) of the printed text, cells being w wide;
\* empty when nothing is shown there.
OutCell(r, c, w) ==
    LET line == OutRow(r)
        hi == IF (c + 1) * w < Len(line) THEN (c + 1) * w ELSE Len(line)
    IN  TrimEnd(SubSeq(line, c * w + 1, hi))

\* Number of newlines in a text.
CountNL(s) == Cardinality({ i \in 1..Len(s) : s[i] = NL })

\* The grid branch ran to the end of the formatting loop.
GridDone ==
    /\ ~args_list
    /\ fs_kind = "dir"
    /\ pc \in { "print", "done" }

\* The grid branch has computed (or failed to compute) its layout.
LayoutRan ==
    /\ ~args_list
    /\ fs_kind = "dir"
    /\ \/ pc \in { "cell", "print", "done" }
       \/ err = "arith"

\* longest entry length + 2
EntryWidth == MaxOr0({ Len(entries_strs[i]) : i \in 1..Len(entries_strs) }) + 2

NumEntries == Len(entries_strs)

\* ------------------------------------------------------------------ claims

\* C1: in the grid branch, for a non-empty entry sequence and a terminal
\* width >= 1 smaller than entry_width, the column count is clamped to 1 and
\* the formatter does not crash.
C1_NarrowTerminalOneColumn ==
    (LayoutRan /\ NumEntries >= 1 /\ terminal_width >= 1
        /\ terminal_width < EntryWidth)
    => (columns = 1 /\ err = "none")

\* C2: with n >= 1 entries, the cell (row, column) of the printed grid
\* holds entries[row + column * rows] when that index is < n, every entry is
\* shown exactly once, and reading the grid column by column gives the
\* entries in their input order.
C2_ColumnMajorOnce ==
    (GridDone /\ NumEntries >= 1)
    => LET w == EntryWidth
           cell(k) == OutCell((k - 1) % rows, (k - 1) \div rows, w)
           byColumn == [k \in 1..(rows * columns) |-> cell(k)]
       IN  /\ rows * columns >= NumEntries
           /\ (rows - 1) * columns < NumEntries
           /\ \A r \in 0..(rows - 1), c \in 0..(columns - 1) :
                r + c * rows < NumEntries
                => OutCell(r, c, w) = entries_strs[r + c * rows + 1]
           /\ Cardinality({ k \in 1..(rows * columns) : cell(k) # <<>> })
                = NumEntries
           /\ SelectSeq(byColumn, LAMBDA x : x # <<>>) = entries_strs

C2_Witness ==
    /\ GridDone
    /\ pc = "done"
    /\ NumEntries = 5
    /\ rows = 3
    /\ columns = 2

\* C3: no row of the grid ends with padding spaces, the last populated cell
\* of every row being unpadded; ["a","bb","ccc"] at width 80 prints
\* "a    bb   ccc".
C3_NoTrailingPadding ==
    GridDone
    => /\ \A r \in 0..(rows - 1) :
            OutRow(r) = <<>> \/ OutRow(r)[Len(OutRow(r))] # SP
       /\ (entries_strs = << <<"a">>, <<"b", "b">>, <<"c", "c", "c">> >>
             /\ terminal_width = 80)
          => output = << "a", SP, SP, SP, SP, "b", "b", SP, SP, SP,
                         "c", "c", "c" >>

\* C4: with no entries the grid branch returns the empty string for every
\* terminal width, widths 0 and 1 included, without failing.
C4_EmptyListingEmptyOutput ==
    (LayoutRan /\ NumEntries = 0)
    => (err = "none" /\ output = <<>>)

\* C5: with n >= 1 entries the output has exactly rows = ceil(n / columns)
\* rows, every row holds an entry, rows are separated by one newline and the
\* output does not end with a newline.
C5_RowsAndNewlines ==
    (GridDone /\ NumEntries >= 1)
    => /\ rows * columns >= NumEntries
       /\ (rows - 1) * columns < NumEntries
       /\ Len(SplitNL(output)) = rows
       /\ CountNL(output) = rows - 1
       /\ \A r \in 0..(rows - 1) :
            \E i \in 1..NumEntries : OutCell(r, 0, EntryWidth) = entries_strs[i]
       /\ output # <<>>
       /\ output[Len(output)] # NL

C5_Witness ==
    /\ GridDone
    /\ pc = "done"
    /\ rows = 2
    /\ columns = 2
    /\ NumEntries = 3

\* C6: every row of the output is at most columns * entry_width characters
\* long, entry_width being the longest entry length + 2.
C6_RowWidthBound ==
    GridDone
    => \A i \in 1..Len(SplitNL(output)) :
          Len(SplitNL(output)[i]) <= columns * EntryWidth

C6_Witness ==
    /\ GridDone
    /\ pc = "done"
    /\ rows >= 2
    /\ columns >= 2
    /\ \E i \in 1..Len(SplitNL(output)) :
          Len(SplitNL(output)[i]) > (columns - 1) * EntryWidth

\* C7: when entry_width <= terminal_width < 2 * entry_width the column
\* count is 1 and the entries are printed one per line, in input order, with
\* no padding; ["a","b","c","d"] at width 3 gives the lines a, b, c, d.
C7_SingleColumnPlainLines ==
    /\ (LayoutRan /\ EntryWidth <= terminal_width
           /\ terminal_width < 2 * EntryWidth)
       => columns = 1
    /\ (GridDone /\ columns = 1)
       => /\ output = Join(entries_strs, <<NL>>)
          /\ \A i \in 1..Len(output) : output[i] # SP

C7_Witness ==
    /\ pc = "done"
    /\ ~args_list
    /\ entries_strs = << <<"a">>, <<"b">>, <<"c">>, <<"d">> >>
    /\ terminal_width = 3
    /\ columns = 1
    /\ stdout = << "a", NL, "b", NL, "c", NL, "d", NL >>

\* C8: in b, --release has an effect only together with --build: the
\* command run for --format is the same with and without --release (it is
\* determined by the project alone), no command is run when neither --build
\* nor --format is given, and the build command ends with "--release"
\* exactly when --release is set.
C8_ReleaseOnlyAffectsBuild ==
    LET formatAt == IF b_build THEN 2 ELSE 1
        hotshot == b_project.work /\ b_project.name = "hotshot"
        releases(c) == Cardinality({ i \in 1..Len(c) : c[i] = "--release" })
    IN  /\ (~b_build /\ ~b_format) => b_ran = <<>>
        /\ Len(b_ran) <= (IF b_build THEN 1 ELSE 0) + (IF b_format THEN 1 ELSE 0)
        /\ (b_build /\ Len(b_ran) >= 1)
           => LET c == b_ran[1].cmd IN
              /\ (c[Len(c)] = "--release") <=> b_release
              /\ releases(c) = (IF b_release THEN 1 ELSE 0)
              /\ SubSeq(c, 1, Len(c) - releases(c))
                   = (IF hotshot THEN << "just", "async-std", "build" >>
                      ELSE << "cargo", "build" >>)
        /\ (b_format /\ Len(b_ran) >= formatAt)
           => b_ran[formatAt].cmd
                = (IF hotshot THEN << "just", "async-std", "fmt_lint" >>
                   ELSE << "cargo", "fmt" >>)
        /\ b_pc = "done" => Len(b_ran) = (IF b_build THEN 1 ELSE 0)
                                         + (IF b_format THEN 1 ELSE 0)

C8_Witness ==
    /\ b_pc = "done"
    /\ b_build /\ b_format /\ b_release
    /\ b_ran[1].cmd = << "cargo", "build", "--release" >>
    /\ b_ran[2].cmd = << "cargo", "fmt" >>

\* C9 (as stated): an absent cell occurs only in the last column: every
\* cell (row, column) with column < columns - 1 is populated.
C9_OnlyLastColumnPartial ==
    (GridDone /\ NumEntries >= 1)
    => \A r \in 0..(rows - 1), c \in 0..(columns - 2) :
          /\ r + c * rows < NumEntries
          /\ OutCell(r, c, EntryWidth) # <<>>

\* C9 (amended): with last = (n - 1) div rows the last populated column,
\* every cell left of column last is populated and every cell right of it
\* is absent, so only column last can be partial; a cell is populated
\* exactly when row + column * rows < n.
C9_OnlyLastPopulatedColumnPartial ==
    (GridDone /\ NumEntries >= 1)
    => LET last == (NumEntries - 1) \div rows IN
       \A r \in 0..(rows - 1), c \in 0..(columns - 1) :
          /\ c < last => OutCell(r, c, EntryWidth) # <<>>
          /\ c > last => OutCell(r, c, EntryWidth) = <<>>
          /\ (OutCell(r, c, EntryWidth) # <<>>) <=> (r + c * rows < NumEntries)

C9_Witness ==
    /\ GridDone
    /\ pc = "done"
    /\ NumEntries = 5
    /\ columns = 4
    /\ rows = 2
    /\ OutCell(0, 2, EntryWidth) # <<>>
    /\ OutCell(1, 2, EntryWidth) = <<>>
    /\ OutCell(0, 3, EntryWidth) = <<>>

\* C10: when the stat of the path, the reading of the directory or the
\* terminal-size query fails, the formatting loop never runs and nothing is
\* printed; the layout is printed only after all of them succeeded, whole.
C10_NoLayoutOnUpstreamFailure ==
    /\ err \in { "stat", "read_dir", "size" }
       => /\ pc = "aborted"
          /\ stdout = <<>>
          /\ output = <<>>
          /\ row = 0 /\ column = 0 /\ rows = 0
    /\ (~args_list /\ fs_kind = "dir" /\ pc \in { "cell", "print", "done" })
       => /\ err = "none"
          /\ terminal_width \in Widths
          /\ entries_strs = SortPaths(entries_strs)
          /\ { entries_strs[i] : i \in 1..Len(entries_strs) }
               = { p \in dir_entries : args_all \/ IsVisible(p) }
    /\ (~args_list /\ fs_kind = "dir" /\ stdout # <<>>)
       => /\ pc = "done"
          /\ row = rows
          /\ stdout = output \o <<NL>>

C10_Witness ==
    /\ err = "size"
    /\ pc = "aborted"
    /\ Len(entries_strs) >= 2
    /\ stdout = <<>>

\* A line without its colour codes (each runs from ESC to the next "m").
RECURSIVE StripCodes(_)
StripCodes(s) ==
    IF s = <<>> THEN <<>>
    ELSE IF Head(s) = ESC
    THEN LET k == CHOOSE i \in 1..Len(s) :
                    s[i] = "m" /\ \A j \in 1..(i - 1) : s[j] # "m"
         IN  StripCodes(SubSeq(s, k + 1, Len(s)))
    ELSE << Head(s) >> \o StripCodes(Tail(s))

\* The walked, non-ignored paths that hold the query (letter case ignored
\* unless the search is case-sensitive).
FindMatching ==
    LET fold(c) == IF ~f_case_sensitive /\ c = "Q" THEN "q" ELSE c
        holds(p) == \E i \in 1..Len(p) :
                       \A k \in 1..Len(f_query) :
                          /\ i + k - 1 <= Len(p)
                          /\ fold(p[i + k - 1]) = fold(f_query[k])
    IN  { p \in WalkDir(f_tree, f_depth) \ f_ignored : holds(p) }

\* The lines of the string find_in_directory returned.
FindLines == IF f_result = <<>> THEN <<>> ELSE SplitNL(f_result)

\* C11 (as stated): whatever the order in which the workers yield matches,
\* find_in_directory returns one line per matching non-ignored path, in
\* ascending byte order of the path text (the line without colour codes).
C11_SortedByPathText ==
    f_pc = "done"
    => /\ Len(FindLines) = Cardinality(FindMatching)
       /\ { StripCodes(FindLines[i]) : i \in 1..Len(FindLines) } = FindMatching
       /\ \A i, j \in 1..Len(FindLines) :
            i < j => LineLess(StripCodes(FindLines[i]), StripCodes(FindLines[j]))

\* C11 (amended): whatever the order in which the workers yield matches,
\* find_in_directory returns one line per matching non-ignored path, in
\* ascending byte order of the lines as returned, colour codes included;
\* without colour codes that is the order of the path text.
C11_SortedByLineText ==
    f_pc = "done"
    => /\ Len(FindLines) = Cardinality(FindMatching)
       /\ { StripCodes(FindLines[i]) : i \in 1..Len(FindLines) } = FindMatching
       /\ \A i, j \in 1..Len(FindLines) :
            i < j => LineLess(FindLines[i], FindLines[j])
       /\ ~f_colour
          => \A i \in 1..Len(FindLines) : FindLines[i] = StripCodes(FindLines[i])

C11_Witness ==
    /\ f_pc = "done"
    /\ f_colour
    /\ Len(FindLines) = 2
    /\ StripCodes(FindLines[1]) = << ".", "/", "a", "q" >>
    /\ StripCodes(FindLines[2]) = << ".", "/", "a", "/", "q" >>
    /\ FindLines[1] # StripCodes(FindLines[1])

====
